---- MODULE Spec2Model ----
(***************************************************************************)
(* Model of the S3 proxy HTTP handler of caddy-s3-proxy (src/s3proxy.go).  *)
(*                                                                         *)
(* One request is one sequential run of S3Proxy.ServeHTTP.  The handler    *)
(* instance holds the read-only configuration (Root, Bucket); everything   *)
(* else is per-request state.  The storage client (GetObject), the next    *)
(* handler and the response writer are capabilities outside the            *)
(* repository: their results are nondeterministic inputs of the steps      *)
(* that call them.                                                         *)
(*                                                                         *)
(* Strings that the code inspects character by character (paths, keys)     *)
(* are sequences of one-character strings.                                 *)
(***************************************************************************)
EXTENDS Integers, Sequences, FiniteSets, TLC

\* ------------------------------------------------------------------------
\* Bounds of the model
\* ------------------------------------------------------------------------

\* number of request slots (requests that can be in flight at once)
NumReqs == 2

\* longest object body, in chunks handed from Body.Read to w.Write
MaxBody == 2

\* longest url path drawn for the key-builder specification
MaxPathLen == 4

\* ------------------------------------------------------------------------
\* Values
\* ------------------------------------------------------------------------

\* a nil pointer / absent header / unset variable
Nil == "<nil>"

Reqs == 1..NumReqs

\* path.Join and path.Clean (package path), as used at lines 196, 274, 278
RECURSIVE EltEnd(_, _)
EltEnd(p, r) ==
    IF r > Len(p) \/ p[r] = "/" THEN r ELSE EltEnd(p, r + 1)

RECURSIVE Backtrack(_, _, _)
Backtrack(out, w, dotdot) ==
    IF w > dotdot /\ out[w + 1] # "/"
    THEN Backtrack(out, w - 1, dotdot)
    ELSE SubSeq(out, 1, w)

RECURSIVE CleanLoop(_, _, _, _, _)
CleanLoop(p, rooted, r, out, dotdot) ==
    IF r > Len(p) THEN out
    ELSE IF p[r] = "/"
      THEN CleanLoop(p, rooted, r + 1, out, dotdot)
    ELSE IF p[r] = "." /\ (r = Len(p) \/ p[r + 1] = "/")
      THEN CleanLoop(p, rooted, r + 1, out, dotdot)
    ELSE IF p[r] = "." /\ p[r + 1] = "." /\ (r + 1 = Len(p) \/ p[r + 2] = "/")
      THEN IF Len(out) > dotdot
             THEN CleanLoop(p, rooted, r + 2,
                            Backtrack(out, Len(out) - 1, dotdot), dotdot)
           ELSE IF ~rooted
             THEN LET o2 == (IF Len(out) > 0 THEN Append(out, "/") ELSE out)
                            \o <<".", ".">>
                  IN  CleanLoop(p, rooted, r + 2, o2, Len(o2))
           ELSE CleanLoop(p, rooted, r + 2, out, dotdot)
    ELSE LET o1 == IF (rooted /\ Len(out) # 1) \/ (~rooted /\ Len(out) # 0)
                   THEN Append(out, "/") ELSE out
             e  == EltEnd(p, r)
         IN  CleanLoop(p, rooted, e, o1 \o SubSeq(p, r, e - 1), dotdot)

Clean(p) ==
    IF p = <<>> THEN <<".">>
    ELSE LET rooted == p[1] = "/"
             out    == IF rooted
                       THEN CleanLoop(p, TRUE, 2, <<"/">>, 1)
                       ELSE CleanLoop(p, FALSE, 1, <<>>, 0)
         IN  IF out = <<>> THEN <<".">> ELSE out

RECURSIVE JoinBuf(_, _)
JoinBuf(elems, buf) ==
    IF elems = <<>> THEN buf
    ELSE LET e == Head(elems)
         IN  IF Len(buf) > 0 \/ e # <<>>
             THEN JoinBuf(Tail(elems),
                          (IF Len(buf) > 0 THEN Append(buf, "/") ELSE buf) \o e)
             ELSE JoinBuf(Tail(elems), buf)

Join(elems) ==
    IF \A n \in 1..Len(elems) : elems[n] = <<>>
    THEN <<>>
    ELSE Clean(JoinBuf(elems, <<>>))

HasSuffix(s, suffix) ==
    /\ Len(s) >= Len(suffix)
    /\ SubSeq(s, Len(s) - Len(suffix) + 1, Len(s)) = suffix

\* joinPath without lines 197-201: the separator path.Join strips is lost
joinPath_NoTrailingSlash(root, uriPath) ==
    Join(<<root, uriPath>>)

\* joinPath: uriPath[len(uriPath)-1:] panics on the empty path, so the
\* operator is only applied to a non-empty uriPath (see BuildKey)
joinPath(root, uriPath) ==
    LET isDir   == uriPath[Len(uriPath)] = "/"
        newPath == Join(<<root, uriPath>>)
    IN  IF isDir /\ newPath # <<"/">>
        THEN Append(newPath, "/")
        ELSE newPath

defaultIndex == <<"i", "n", "d", "e", "x", ".", "h", "t", "m", "l">>

\* sha1.New / Write / Sum and hex.EncodeToString, tabulated for the query
\* strings the model draws (the digests are the real SHA-1 values)
Sha1Hex(in) ==
    CASE in = "a=1" ->
           <<"8", "6", "e", "d", "a", "7", "7", "0", "a", "6",
             "0", "6", "0", "8", "2", "4", "b", "0", "9", "0",
             "d", "d", "4", "d", "f", "0", "9", "1", "e", "3",
             "b", "d", "4", "1", "2", "1", "2", "7", "9", "c">>
      [] in = "b=2" ->
           <<"9", "0", "f", "5", "0", "c", "6", "9", "e", "b",
             "5", "0", "e", "4", "9", "3", "c", "d", "1", "a",
             "b", "9", "5", "b", "7", "d", "6", "f", "b", "d",
             "0", "b", "3", "a", "5", "3", "f", "0", "1", "e">>
      [] in = "a=1&b=2" ->
           <<"d", "5", "3", "c", "f", "6", "4", "e", "7", "6",
             "8", "f", "4", "e", "f", "0", "9", "c", "8", "0",
             "6", "b", "b", "e", "1", "2", "2", "5", "8", "c",
             "7", "8", "2", "1", "1", "b", "2", "6", "9", "0">>
      [] in = "b=2&a=1" ->
           <<"f", "9", "1", "0", "e", "e", "2", "7", "0", "5",
             "3", "6", "0", "5", "8", "0", "0", "f", "e", "f",
             "1", "6", "5", "c", "2", "5", "2", "e", "a", "6",
             "6", "2", "c", "4", "c", "3", "d", "a", "d", "2">>
      [] in = "a=%31" ->
           <<"1", "3", "2", "d", "a", "4", "1", "d", "7", "a",
             "e", "b", "6", "7", "d", "f", "6", "a", "6", "a",
             "f", "e", "c", "2", "a", "e", "b", "2", "1", "e",
             "a", "a", "8", "5", "1", "e", "e", "9", "7", "d">>

\* convertSha1 hashing the parsed and re-encoded query (percent-escapes
\* decoded, parameters sorted by name) instead of r.URL.RawQuery
convertSha1_Canonical(in) ==
    Sha1Hex(CASE in = "a=%31"   -> "a=1"
              [] in = "b=2&a=1" -> "a=1&b=2"
              [] OTHER          -> in)

\* convertSha1 (lines 289-293)
convertSha1(in) ==
    Sha1Hex(in)

\* GetHandler with lines 273-275 and 277-279 swapped: the query hash is
\* joined first, the default document is appended to what then ends in "/"
s3KeyOf_HashFirst(fullPath, rawQuery) ==
    LET k1 == IF rawQuery # ""
              THEN Join(<<fullPath, <<"/">>, convertSha1(rawQuery)>>)
              ELSE fullPath
    IN  IF HasSuffix(k1, <<"/">>)
        THEN Join(<<k1, defaultIndex>>)
        ELSE k1

\* the key computation of GetHandler (lines 270-279)
s3KeyOf(fullPath, rawQuery) ==
    LET k1 == IF HasSuffix(fullPath, <<"/">>)
              THEN Join(<<fullPath, defaultIndex>>)
              ELSE fullPath
    IN  IF rawQuery # ""
        THEN Join(<<k1, <<"/">>, convertSha1(rawQuery)>>)
        ELSE k1

\* ------------------------------------------------------------------------
\* Header maps (net/http.Header): canonical name -> value
\* ------------------------------------------------------------------------

\* textproto.CanonicalMIMEHeaderKey on the header names the model uses;
\* Header.Set, Header.Get and Header.Del all canonicalize the name
Canonical(k) ==
    CASE k = "ETag"           -> "Etag"
      [] k = "x-foo"          -> "X-Foo"
      [] k = "content-length" -> "Content-Length"
      [] OTHER                -> k

EmptyHeader == [n \in {} |-> ""]

HSet(h, k, v) ==
    [n \in DOMAIN h \cup {Canonical(k)} |-> IF n = Canonical(k) THEN v ELSE h[n]]

HDel(h, k) ==
    [n \in DOMAIN h \ {Canonical(k)} |-> h[n]]

\* Header.Get of a request header: "" when the header is absent
HGet(h, k) ==
    IF h[k] = Nil THEN "" ELSE h[k]

\* time.Parse(http.TimeFormat, v) and Time.UTC().Format(http.TimeFormat),
\* tabulated for the instants the model draws
ZeroTime == "0001-01-01T00:00:00Z"

SomeTime == "2006-01-02T15:04:05Z"

SomeTimeHTTP == "Mon, 02 Jan 2006 15:04:05 GMT"

ParseHTTPTime(v) ==
    IF v = SomeTimeHTTP
    THEN [ok |-> TRUE, t |-> SomeTime]
    ELSE [ok |-> FALSE, t |-> ZeroTime]

FormatHTTPTime(t) ==
    CASE t = SomeTime -> SomeTimeHTTP
      [] t = ZeroTime -> "Mon, 01 Jan 0001 00:00:00 GMT"

\* ------------------------------------------------------------------------
\* Conditional request translation (getS3Object, lines 101-126)
\* ------------------------------------------------------------------------

ValidatorNames ==
    {"Range", "If-Match", "If-None-Match", "If-Modified-Since", "If-Unmodified-Since"}

\* getS3Object setting a date validator whenever its header is non-empty,
\* without the err == nil test of lines 118 and 124
GetObjectInput_IgnoreParseErr(bucket, key, headers) ==
    LET rg  == HGet(headers, "Range")
        im  == HGet(headers, "If-Match")
        inm == HGet(headers, "If-None-Match")
        ims == HGet(headers, "If-Modified-Since")
        ius == HGet(headers, "If-Unmodified-Since")
    IN  [Bucket            |-> bucket,
         Key               |-> key,
         Range             |-> IF rg # "" THEN rg ELSE Nil,
         IfMatch           |-> IF im # "" THEN im ELSE Nil,
         IfNoneMatch       |-> IF inm # "" THEN inm ELSE Nil,
         IfModifiedSince   |-> IF ims # ""
                               THEN ParseHTTPTime(ims).t ELSE Nil,
         IfUnmodifiedSince |-> IF ius # ""
                               THEN ParseHTTPTime(ius).t ELSE Nil]

GetObjectInput(bucket, key, headers) ==
    LET rg  == HGet(headers, "Range")
        im  == HGet(headers, "If-Match")
        inm == HGet(headers, "If-None-Match")
        ims == HGet(headers, "If-Modified-Since")
        ius == HGet(headers, "If-Unmodified-Since")
    IN  [Bucket            |-> bucket,
         Key               |-> key,
         Range             |-> IF rg # "" THEN rg ELSE Nil,
         IfMatch           |-> IF im # "" THEN im ELSE Nil,
         IfNoneMatch       |-> IF inm # "" THEN inm ELSE Nil,
         IfModifiedSince   |-> IF ims # "" /\ ParseHTTPTime(ims).ok
                               THEN ParseHTTPTime(ims).t ELSE Nil,
         IfUnmodifiedSince |-> IF ius # "" /\ ParseHTTPTime(ius).ok
                               THEN ParseHTTPTime(ius).t ELSE Nil]

\* ------------------------------------------------------------------------
\* Response reconstruction (writeResponseFromGetObject, lines 205-227)
\* ------------------------------------------------------------------------

\* the header / GetObjectOutput field pairs of lines 207-214, in order
AllowList ==
    << <<"Cache-Control", "CacheControl">>,
       <<"Content-Disposition", "ContentDisposition">>,
       <<"Content-Encoding", "ContentEncoding">>,
       <<"Content-Language", "ContentLanguage">>,
       <<"Content-Range", "ContentRange">>,
       <<"Content-Type", "ContentType">>,
       <<"ETag", "ETag">>,
       <<"Expires", "Expires">> >>

\* setStrHeader testing the pointer only, not len(*value) > 0
setStrHeader_NoEmptyCheck(key, value) ==
    IF value # Nil
    THEN << [op |-> "Set", k |-> key, v |-> value] >>
    ELSE << >>

\* setStrHeader: the operations it performs on the header map
setStrHeader(key, value) ==
    IF value # Nil /\ value # ""
    THEN << [op |-> "Set", k |-> key, v |-> value] >>
    ELSE << >>

\* setTimeHeader
setTimeHeader(key, value) ==
    IF value # Nil /\ value # ZeroTime
    THEN << [op |-> "Set", k |-> key, v |-> FormatHTTPTime(value)] >>
    ELSE << >>

RECURSIVE AllowListOps(_, _)
AllowListOps(obj, n) ==
    IF n > Len(AllowList) THEN << >>
    ELSE setStrHeader(AllowList[n][1], obj[AllowList[n][2]])
         \o AllowListOps(obj, n + 1)

\* the loop over obj.Metadata, visiting the keys in the given order
RECURSIVE MetadataOps(_, _)
MetadataOps(md, order) ==
    IF order = << >> THEN << >>
    ELSE setStrHeader(Head(order), md[Head(order)])
         \o MetadataOps(md, Tail(order))

\* the orders in which a Go map range can visit the keys of md
MapOrders(md) ==
    {o \in [1..Cardinality(DOMAIN md) -> DOMAIN md] :
        \A a, b \in DOMAIN o : a # b => o[a] # o[b]}

\* writeResponseFromGetObject with the metadata loop (lines 218-220) ahead
\* of the fixed fields (lines 207-215)
HeaderOps_MetadataFirst(obj, order) ==
    MetadataOps(obj.Metadata, order)
    \o AllowListOps(obj, 1)
    \o setTimeHeader("Last-Modified", obj.LastModified)
    \o << [op |-> "Set", k |-> "X-Cache-S3", v |-> "hit"] >>
    \o (IF obj.Body # {}
        THEN << [op |-> "Del", k |-> "Content-Length", v |-> ""] >>
        ELSE << >>)

\* writeResponseFromGetObject without the Del of line 227
HeaderOps_NoDel(obj, order) ==
    AllowListOps(obj, 1)
    \o setTimeHeader("Last-Modified", obj.LastModified)
    \o MetadataOps(obj.Metadata, order)
    \o << [op |-> "Set", k |-> "X-Cache-S3", v |-> "hit"] >>

\* every header operation of writeResponseFromGetObject, in program order
HeaderOps(obj, order) ==
    AllowListOps(obj, 1)
    \o setTimeHeader("Last-Modified", obj.LastModified)
    \o MetadataOps(obj.Metadata, order)
    \o << [op |-> "Set", k |-> "X-Cache-S3", v |-> "hit"] >>
    \o (IF obj.Body # {}
        THEN << [op |-> "Del", k |-> "Content-Length", v |-> ""] >>
        ELSE << >>)

RECURSIVE ApplyOps(_, _)
ApplyOps(h, ops) ==
    IF ops = << >> THEN h
    ELSE ApplyOps(IF Head(ops).op = "Set"
                  THEN HSet(h, Head(ops).k, Head(ops).v)
                  ELSE HDel(h, Head(ops).k),
                  Tail(ops))

\* ------------------------------------------------------------------------
\* The response sink (http.ResponseWriter)
\* ------------------------------------------------------------------------

\* status 0: no status line written yet.  header is the live header map;
\* wire is the copy of it that went out with the status line.
NewResponse(h) ==
    [status |-> 0, header |-> h, wire |-> EmptyHeader, body |-> << >>]

\* WriteHeader: the first call fixes the status and the headers on the wire
WriteHeader(resp, code) ==
    IF resp.status = 0
    THEN [resp EXCEPT !.status = code, !.wire = resp.header]
    ELSE resp

\* Write: an implicit WriteHeader(200), then the chunk
Write(resp, chunk) ==
    [WriteHeader(resp, 200) EXCEPT !.body = Append(@, chunk)]

\* ------------------------------------------------------------------------
\* Errors
\* ------------------------------------------------------------------------

NoErr == [kind |-> "nil", code |-> ""]

AwsErr(code) == [kind |-> "aws", code |-> code]

OtherErr(msg) == [kind |-> "other", code |-> msg]

\* the errors p.client.GetObject can return: awserr.Error values with the
\* two codes the code singles out and one other code, and a plain error
StorageErrs ==
    {AwsErr("NotModified"), AwsErr("NoSuchKey"), AwsErr("AccessDenied"),
     OtherErr("connection reset")}

\* what next.ServeHTTP can return
NextResults == {NoErr, [kind |-> "next", code |-> "next handler failed"]}

\* ------------------------------------------------------------------------
\* Inputs
\* ------------------------------------------------------------------------

RootPlaceholder == "{http.vars.root}"

\* repl.ReplaceAll(p.Root, ""): the placeholder becomes the value of the
\* request variable, or nothing when the variable is unset
RECURSIVE ReplaceAll(_, _)
ReplaceAll(tmpl, rootVar) ==
    IF tmpl = << >> THEN << >>
    ELSE (IF Head(tmpl) = RootPlaceholder THEN rootVar ELSE <<Head(tmpl)>>)
         \o ReplaceAll(Tail(tmpl), rootVar)

\* handler configurations after Provision (Root is never empty then)
Configs ==
    {[Root |-> <<RootPlaceholder>>, Bucket |-> "bucket"],
     [Root |-> <<"/", "s">>, Bucket |-> "bucket"]}

Methods == {"GET", "POST"}

UrlPaths == {<< >>, <<"/">>, <<"/", "a">>, <<"/", "a", "/">>}

RawQueries == {"", "a=1"}

RootVars == {<< >>, <<"/", "s">>}

NoValidators == [n \in ValidatorNames |-> Nil]

RequestHeaders ==
    {NoValidators,
     [NoValidators EXCEPT !["If-None-Match"] = "\"abc\"",
                          !["If-Modified-Since"] = SomeTimeHTTP,
                          !["Range"] = "bytes=0-1"],
     [NoValidators EXCEPT !["If-Match"] = "",
                          !["If-Modified-Since"] = "yesterday",
                          !["If-Unmodified-Since"] = SomeTimeHTTP]}

\* header maps the response writer can already carry when the handler runs
ResponseHeaders ==
    {EmptyHeader, ("Server" :> "Caddy") @@ ("Content-Length" :> "5")}

Requests ==
    [method : Methods, urlPath : UrlPaths, rawQuery : RawQueries,
     header : RequestHeaders, rootVar : RootVars, respHeader : ResponseHeaders]

BlankRequest ==
    [method |-> "", urlPath |-> << >>, rawQuery |-> "",
     header |-> NoValidators, rootVar |-> << >>, respHeader |-> EmptyHeader]

\* s3.GetObjectOutput.  A *string or *time.Time field is Nil or its value;
\* ContentLength and Body are the set of what the pointer refers to, {} for
\* a nil pointer.
NoMetadata ==
    [CacheControl |-> Nil, ContentDisposition |-> Nil, ContentEncoding |-> Nil,
     ContentLanguage |-> Nil, ContentRange |-> Nil, ContentType |-> Nil,
     ETag |-> Nil, Expires |-> Nil, LastModified |-> Nil,
     Metadata |-> EmptyHeader, ContentLength |-> {}, Body |-> {}]

ObjectMetadata ==
    {NoMetadata,
     [NoMetadata EXCEPT !.ContentType = "text/html", !.ETag = "\"abc\"",
                        !.CacheControl = "max-age=60", !.LastModified = SomeTime,
                        !.Metadata = ("x-foo" :> "bar")],
     [NoMetadata EXCEPT !.ContentType = "text/html", !.ContentEncoding = "",
                        !.LastModified = ZeroTime,
                        !.Metadata = ("Content-Type" :> "text/plain")
                                     @@ ("content-length" :> "5")]}

\* body streams: the chunks 1, 2, ..., n
Streams == {[k \in 1..n |-> k] : n \in 0..MaxBody}

\* what p.client.GetObject can return.  With an error the output carries no
\* body and at most the fields taken from the response headers; without one
\* ContentLength is the length of the body, or nil when the backend sent
\* none, and the body can be missing.
StorageResponses ==
    {[err |-> e, obj |-> m] :
        e \in StorageErrs, m \in ObjectMetadata}
    \cup
    {[err |-> NoErr, obj |-> [m EXCEPT !.ContentLength = {Len(b)}, !.Body = {b}]] :
        m \in ObjectMetadata, b \in Streams}
    \cup
    {[err |-> NoErr, obj |-> [m EXCEPT !.Body = {b}]] :
        m \in ObjectMetadata, b \in Streams}
    \cup
    {[err |-> NoErr, obj |-> [m EXCEPT !.ContentLength = {1}]] :
        m \in ObjectMetadata}

\* ------------------------------------------------------------------------
\* State
\* ------------------------------------------------------------------------

\* config: the handler's fields Root and Bucket, shared by all requests
\* st[i]:  the state of the request in slot i
\*   pc        position of the request in ServeHTTP
\*   req       the inbound request
\*   key       the s3Key computed by GetHandler, nKeys how often
\*   oi        the GetObjectInput handed to the storage client
\*   calls     number of GetObject calls made
\*   sto       what GetObject returned
\*   outcome   how getS3Object classified it (the log line it wrote)
\*   err       the error GetHandler returns to ServeHTTP
\*   resp      the response sink, sinkOps every operation made on it
\*   recon     number of calls of writeResponseFromGetObject
\*   pos       chunks copied by io.Copy
\*   nextCalls number of next.ServeHTTP calls, nextResult what it returned
\*   result    what ServeHTTP returned
VARIABLES config, st

vars == <<config, st>>

Blank ==
    [pc |-> "Idle", req |-> BlankRequest, key |-> << >>, nKeys |-> 0,
     oi |-> GetObjectInput("", << >>, NoValidators), calls |-> 0,
     sto |-> [err |-> NoErr, obj |-> NoMetadata], outcome |-> "None",
     err |-> NoErr, resp |-> NewResponse(EmptyHeader), sinkOps |-> << >>,
     recon |-> 0, pos |-> 0, nextCalls |-> 0, nextResult |-> NoErr,
     result |-> NoErr]

Init ==
    /\ config \in Configs
    /\ st = [i \in Reqs |-> Blank]

\* ------------------------------------------------------------------------
\* Steps of ServeHTTP
\* ------------------------------------------------------------------------

\* the host calls ServeHTTP(w, r, next)
Accept(i, r) ==
    /\ st[i].pc = "Idle"
    /\ st' = [st EXCEPT ![i] = [Blank EXCEPT !.pc = "Received", !.req = r,
                                             !.resp = NewResponse(r.respHeader)]]
    /\ UNCHANGED config

\* ServeHTTP without the method test of line 242
CheckMethod_NoMethodGuard(i) ==
    /\ st[i].pc = "Received"
    /\ st' = [st EXCEPT ![i].pc = "MethodChecked"]
    /\ UNCHANGED config

\* lines 242-251: only GET is served, anything else goes to the next handler
CheckMethod(i) ==
    /\ st[i].pc = "Received"
    /\ IF st[i].req.method # "GET"
       THEN \E nr \in NextResults :
                st' = [st EXCEPT ![i].pc = "Delegated",
                                 ![i].nextCalls = @ + 1,
                                 ![i].nextResult = nr,
                                 ![i].result = nr]
       ELSE st' = [st EXCEPT ![i].pc = "MethodChecked"]
    /\ UNCHANGED config

\* ServeHTTP keeping the request being served in a field the requests in
\* flight share, instead of in its own arguments and locals
BuildKey_SharedRequest(i) ==
    /\ st[i].pc = "MethodChecked"
    /\ LET r == IF st[1].pc # "Idle" THEN st[1].req ELSE st[i].req
       IN  IF r.urlPath = << >>
           THEN st' = [st EXCEPT ![i].pc = "Panicked"]
           ELSE LET root     == ReplaceAll(config.Root, r.rootVar)
                    fullPath == joinPath(root, r.urlPath)
                IN  st' = [st EXCEPT ![i].pc = "KeyBuilt",
                                     ![i].key = s3KeyOf(fullPath, r.rawQuery),
                                     ![i].nKeys = @ + 1]
    /\ UNCHANGED config

\* lines 253-254 and 270-279: resolve the root, join, build the key.
\* joinPath indexes the last byte of the path: the empty path panics.
BuildKey(i) ==
    /\ st[i].pc = "MethodChecked"
    /\ IF st[i].req.urlPath = << >>
       THEN st' = [st EXCEPT ![i].pc = "Panicked"]
       ELSE LET root     == ReplaceAll(config.Root, st[i].req.rootVar)
                fullPath == joinPath(root, st[i].req.urlPath)
            IN  st' = [st EXCEPT ![i].pc = "KeyBuilt",
                                 ![i].key = s3KeyOf(fullPath, st[i].req.rawQuery),
                                 ![i].nKeys = @ + 1]
    /\ UNCHANGED config

\* lines 100-133 (called at 281): translate the validators, call GetObject
FetchFrom(i, responses) ==
    /\ st[i].pc = "KeyBuilt"
    /\ \E r \in responses :
          st' = [st EXCEPT ![i].pc = "Fetched",
                           ![i].oi = GetObjectInput(config.Bucket, st[i].key,
                                                    st[i].req.header),
                           ![i].calls = @ + 1,
                           ![i].sto = r]
    /\ UNCHANGED config

Fetch(i) == FetchFrom(i, StorageResponses)

\* lines 135-192 and 282-286: classify what GetObject returned; the state
\* of request s after getS3Object has returned to GetHandler
Classified(s) ==
    LET e == s.sto.err
    IN  IF e.kind = "aws" /\ e.code = "NotModified"
        THEN \* w.WriteHeader(304); return obj, nil
             [s EXCEPT !.pc = "Reconstruct",
                       !.outcome = "NotModified",
                       !.resp = WriteHeader(s.resp, 304),
                       !.sinkOps = Append(@, [op |-> "WriteHeader", k |-> "",
                                              v |-> "304"])]
        ELSE IF e.kind # "nil"
        THEN \* return obj, err
             [s EXCEPT !.pc = "Returned",
                       !.outcome = IF e.kind = "aws" /\ e.code = "NoSuchKey"
                                   THEN "Miss" ELSE "Failure",
                       !.err = e]
        ELSE IF s.sto.obj.ContentLength = {}
        THEN \* *obj.ContentLength of a nil pointer
             [s EXCEPT !.pc = "Panicked"]
        ELSE IF s.sto.obj.ContentLength = {0}
        THEN [s EXCEPT !.pc = "Returned",
                       !.outcome = "Failure",
                       !.err = OtherErr("ContentLength is empty - cache is ")]
        ELSE [s EXCEPT !.pc = "Reconstruct",
                       !.outcome = "Hit"]

\* getS3Object returning the error after the 304 (return obj, err at 148)
Classify_NotModifiedAsError(i) ==
    /\ st[i].pc = "Fetched"
    /\ st' = [st EXCEPT ![i] =
                 IF st[i].sto.err = AwsErr("NotModified")
                 THEN [Classified(st[i]) EXCEPT !.pc = "Returned",
                                                !.err = st[i].sto.err]
                 ELSE Classified(st[i])]
    /\ UNCHANGED config

\* getS3Object answering a missing key itself with a 404
Classify_MissWrites404(i) ==
    /\ st[i].pc = "Fetched"
    /\ st' = [st EXCEPT ![i] =
                 IF st[i].sto.err = AwsErr("NoSuchKey")
                 THEN [Classified(st[i]) EXCEPT
                          !.resp = WriteHeader(st[i].resp, 404),
                          !.sinkOps = Append(@, [op |-> "WriteHeader", k |-> "",
                                                 v |-> "404"])]
                 ELSE Classified(st[i])]
    /\ UNCHANGED config

\* getS3Object without the ContentLength test of lines 176-184
Classify_NoEmptyCheck(i) ==
    /\ st[i].pc = "Fetched"
    /\ st' = [st EXCEPT ![i] =
                 IF st[i].sto.err = NoErr /\ st[i].sto.obj.ContentLength = {0}
                 THEN [st[i] EXCEPT !.pc = "Reconstruct", !.outcome = "Hit"]
                 ELSE Classified(st[i])]
    /\ UNCHANGED config

\* GetHandler calling getS3Object again after a failed attempt
Classify_RetryOnFailure(i) ==
    /\ st[i].pc = "Fetched"
    /\ st' = [st EXCEPT ![i] =
                 IF Classified(st[i]).outcome = "Failure" /\ st[i].calls < 2
                 THEN [st[i] EXCEPT !.pc = "KeyBuilt"]
                 ELSE Classified(st[i])]
    /\ UNCHANGED config

Classify(i) ==
    /\ st[i].pc = "Fetched"
    /\ st' = [st EXCEPT ![i] = Classified(st[i])]
    /\ UNCHANGED config

\* lines 205-227: copy the headers; with a body go on to io.Copy
Reconstruct(i) ==
    LET s   == st[i]
        obj == s.sto.obj
    IN
    /\ s.pc = "Reconstruct"
    /\ \E order \in MapOrders(obj.Metadata) :
          LET ops == HeaderOps(obj, order)
          IN  st' = [st EXCEPT ![i].pc = IF obj.Body # {} THEN "Streaming"
                                                          ELSE "Returned",
                               ![i].recon = @ + 1,
                               ![i].resp.header = ApplyOps(@, ops),
                               ![i].sinkOps = @ \o ops,
                               ![i].err = NoErr]
    /\ UNCHANGED config

Body(i) == CHOOSE b \in st[i].sto.obj.Body : TRUE

\* line 228, io.Copy: one chunk read from obj.Body and written to w
CopyChunk(i) ==
    /\ st[i].pc = "Streaming"
    /\ st[i].pos < Len(Body(i))
    /\ st' = [st EXCEPT ![i].pos = @ + 1,
                        ![i].resp = Write(@, Body(i)[st[i].pos + 1]),
                        ![i].sinkOps = Append(@, [op |-> "Write", k |-> "",
                                                  v |-> ""])]
    /\ UNCHANGED config

\* a copy that stops after the first chunk
CopyEOF_ShortCopy(i) ==
    /\ st[i].pc = "Streaming"
    /\ st[i].pos = Len(Body(i)) \/ st[i].pos = 1
    /\ st' = [st EXCEPT ![i].pc = "Returned", ![i].err = NoErr]
    /\ UNCHANGED config

\* io.Copy: Read reports io.EOF, Copy returns nil
CopyEOF(i) ==
    /\ st[i].pc = "Streaming"
    /\ st[i].pos = Len(Body(i))
    /\ st' = [st EXCEPT ![i].pc = "Returned", ![i].err = NoErr]
    /\ UNCHANGED config

\* io.Copy: Read fails, Copy returns the error
CopyReadError(i) ==
    /\ st[i].pc = "Streaming"
    /\ st' = [st EXCEPT ![i].pc = "Returned",
                        ![i].err = [kind |-> "io", code |-> "read"]]
    /\ UNCHANGED config

\* io.Copy: Write fails, Copy returns the error.  The writer may or may not
\* have put out the status line before it failed.
CopyWriteError(i) ==
    /\ st[i].pc = "Streaming"
    /\ st[i].pos < Len(Body(i))
    /\ \E wrote \in BOOLEAN :
          st' = [st EXCEPT ![i].pc = "Returned",
                           ![i].err = [kind |-> "io", code |-> "write"],
                           ![i].resp = IF wrote THEN WriteHeader(@, 200) ELSE @,
                           ![i].sinkOps = Append(@, [op |-> "Write", k |-> "",
                                                     v |-> "failed"])]
    /\ UNCHANGED config

\* ServeHTTP returning the error of GetHandler instead of delegating
Dispatch_ReturnsErr(i) ==
    /\ st[i].pc = "Returned"
    /\ st' = [st EXCEPT ![i].pc = "Responded", ![i].result = st[i].err]
    /\ UNCHANGED config

\* lines 258-264: nil means served, any error goes to the next handler
Dispatch(i) ==
    /\ st[i].pc = "Returned"
    /\ IF st[i].err = NoErr
       THEN st' = [st EXCEPT ![i].pc = "Responded", ![i].result = NoErr]
       ELSE \E nr \in NextResults :
                st' = [st EXCEPT ![i].pc = "Delegated",
                                 ![i].nextCalls = @ + 1,
                                 ![i].nextResult = nr,
                                 ![i].result = nr]
    /\ UNCHANGED config

\* ServeHTTP has returned (or panicked): the request is gone
Release(i) ==
    /\ st[i].pc \in {"Responded", "Delegated", "Panicked"}
    /\ st' = [st EXCEPT ![i] = Blank]
    /\ UNCHANGED config

\* the host hands over one request at a time
Arrive(i) ==
    /\ \A j \in Reqs : st[j].pc = "Idle"
    /\ \E r \in Requests : Accept(i, r)

Step(i) ==
    \/ CheckMethod(i)
    \/ BuildKey(i)
    \/ Fetch(i)
    \/ Classify(i)
    \/ Reconstruct(i)
    \/ CopyChunk(i)
    \/ CopyEOF(i)
    \/ CopyReadError(i)
    \/ CopyWriteError(i)
    \/ Dispatch(i)
    \/ Release(i)

Next == \E i \in Reqs : Arrive(i) \/ Step(i)

Spec == Init /\ [][Next]_vars

\* ------------------------------------------------------------------------
\* The key builder on its own: GET requests over every short path
\* ------------------------------------------------------------------------

PathChars == {"/", ".", "a"}

\* the url path of a request is empty or starts with "/"
KeyPaths ==
    {p \in UNION {[1..n -> PathChars] : n \in 0..MaxPathLen} :
        p = << >> \/ p[1] = "/"}

KeyRoots == {<< >>, <<"/">>, <<"/", "s">>, <<".">>, <<"s">>}

KeyRequests ==
    [method : {"GET"}, urlPath : KeyPaths, rawQuery : RawQueries,
     header : {NoValidators}, rootVar : KeyRoots, respHeader : {EmptyHeader}]

ArriveKey(i) ==
    /\ \A j \in Reqs : st[j].pc = "Idle"
    /\ \E r \in KeyRequests : Accept(i, r)

NextKey == \E i \in Reqs : ArriveKey(i) \/ CheckMethod(i) \/ BuildKey(i)

SpecKey == Init /\ [][NextKey]_vars

\* ------------------------------------------------------------------------
\* Two requests side by side that differ in the query string only
\* ------------------------------------------------------------------------

QueryStrings == {"", "a=1", "b=2", "a=1&b=2", "b=2&a=1", "a=%31"}

QueryRequests ==
    [method : {"GET"}, urlPath : {<<"/", "a">>, <<"/", "a", "/">>},
     rawQuery : QueryStrings, header : {NoValidators},
     rootVar : {<<"/", "s">>}, respHeader : {EmptyHeader}]

ArriveQuery(i) == \E r \in QueryRequests : Accept(i, r)

NextQuery == \E i \in Reqs : ArriveQuery(i) \/ CheckMethod(i) \/ BuildKey(i)

SpecQuery == Init /\ [][NextQuery]_vars

\* ------------------------------------------------------------------------
\* The response reconstructor over a wider range of object metadata
\* ------------------------------------------------------------------------

ReconResponseHeaders ==
    ResponseHeaders \cup {("Cache-Control" :> "no-store")}

ReconRequests ==
    [method : {"GET"}, urlPath : {<<"/", "a">>}, rawQuery : {""},
     header : {NoValidators}, rootVar : {<<"/", "s">>},
     respHeader : ReconResponseHeaders]

\* user-defined metadata: an ordinary entry, an empty value, the names the
\* handler itself sets or deletes, two spellings of one header name, and a
\* name of the fixed list
UserMetadata ==
    {EmptyHeader,
     ("x-foo" :> "bar"),
     ("x-foo" :> ""),
     ("content-length" :> "5"),
     ("X-Cache-S3" :> "miss"),
     ("x-foo" :> "bar") @@ ("X-Foo" :> "baz"),
     ("Content-Type" :> "text/plain")}

ReconMetadata ==
    {[m EXCEPT !.Metadata = u] : m \in ObjectMetadata, u \in UserMetadata}

\* hits with and without a body, and the not-modified answer
ReconResponses ==
    {[err |-> NoErr, obj |-> [m EXCEPT !.ContentLength = {Len(b)}, !.Body = {b}]] :
        m \in ReconMetadata, b \in Streams \ {<< >>}}
    \cup
    {[err |-> NoErr, obj |-> [m EXCEPT !.ContentLength = {1}]] :
        m \in ReconMetadata}
    \cup
    {[err |-> AwsErr("NotModified"), obj |-> m] : m \in ObjectMetadata}

ArriveRecon(i) ==
    /\ \A j \in Reqs : st[j].pc = "Idle"
    /\ \E r \in ReconRequests : Accept(i, r)

FetchRecon(i) == FetchFrom(i, ReconResponses)

NextRecon ==
    \E i \in Reqs :
        \/ ArriveRecon(i)
        \/ CheckMethod(i)
        \/ BuildKey(i)
        \/ FetchRecon(i)
        \/ Classify(i)
        \/ Reconstruct(i)
        \/ CopyChunk(i)
        \/ CopyEOF(i)
        \/ CopyReadError(i)
        \/ CopyWriteError(i)
        \/ Dispatch(i)
        \/ Release(i)

SpecRecon == Init /\ [][NextRecon]_vars

\* ------------------------------------------------------------------------
\* The validator translation over every combination of the five headers:
\* each absent, empty or set, the two dates also malformed.  The backend
\* answers NoSuchKey, so every request runs to the next handler.
\* ------------------------------------------------------------------------

CondHeaders ==
    [ValidatorNames -> {Nil, "", SomeTimeHTTP, "yesterday"}]

CondRequests ==
    [method : {"GET"}, urlPath : {<<"/", "a">>}, rawQuery : {""},
     header : CondHeaders, rootVar : {<<"/", "s">>},
     respHeader : {EmptyHeader}]

CondResponses == {[err |-> AwsErr("NoSuchKey"), obj |-> NoMetadata]}

ArriveCond(i) ==
    /\ \A j \in Reqs : st[j].pc = "Idle"
    /\ \E r \in CondRequests : Accept(i, r)

FetchCond(i) == FetchFrom(i, CondResponses)

NextCond ==
    \E i \in Reqs :
        \/ ArriveCond(i)
        \/ CheckMethod(i)
        \/ BuildKey(i)
        \/ FetchCond(i)
        \/ Classify(i)
        \/ Dispatch(i)
        \/ Release(i)

SpecCond == Init /\ [][NextCond]_vars

\* ------------------------------------------------------------------------
\* Requests in flight together: the host runs ServeHTTP on one goroutine
\* per request, so the steps of different requests interleave freely.
\* ------------------------------------------------------------------------

ConcRequests ==
    {[BlankRequest EXCEPT !.method = "GET", !.urlPath = <<"/", "a">>,
                          !.rootVar = <<"/", "s">>],
     [BlankRequest EXCEPT !.method = "GET", !.urlPath = <<"/", "a", "/">>,
                          !.rawQuery = "a=1", !.rootVar = <<"/", "t">>,
                          !.header = [NoValidators EXCEPT
                                          !["If-None-Match"] = "\"abc\""]]}

ConcResponses ==
    {[err |-> AwsErr("NoSuchKey"), obj |-> NoMetadata],
     [err |-> AwsErr("NotModified"), obj |-> NoMetadata],
     [err |-> NoErr,
      obj |-> [NoMetadata EXCEPT !.ContentLength = {1}, !.Body = {<<1>>}]]}

ArriveConc(i) == \E r \in ConcRequests : Accept(i, r)

FetchConc(i) == FetchFrom(i, ConcResponses)

NextConc ==
    \E i \in Reqs :
        \/ ArriveConc(i)
        \/ CheckMethod(i)
        \/ BuildKey(i)
        \/ FetchConc(i)
        \/ Classify(i)
        \/ Reconstruct(i)
        \/ CopyChunk(i)
        \/ CopyEOF(i)
        \/ Dispatch(i)
        \/ Release(i)

SpecConc == Init /\ [][NextConc]_vars

\* ------------------------------------------------------------------------
\* Properties
\* ------------------------------------------------------------------------

Terminal == {"Responded", "Delegated"}

\* request i has been classified by getS3Object
Classed(i) == st[i].calls > 0 /\ st[i].pc # "Fetched"

\* nothing has been done to the response sink of request i
Untouched(i) ==
    /\ st[i].sinkOps = << >>
    /\ st[i].resp = NewResponse(st[i].req.respHeader)

\* C1: a request whose method is not GET builds no key, makes no GetObject
\* call, leaves the response alone and goes to the next handler
C1_NonGetDelegates ==
    \A i \in Reqs :
        (st[i].pc # "Idle" /\ st[i].req.method # "GET") =>
            /\ st[i].pc \in {"Received", "Delegated"}
            /\ st[i].nKeys = 0
            /\ st[i].calls = 0
            /\ Untouched(i)
            /\ st[i].pc = "Delegated" => st[i].nextCalls = 1

C1_Witness ==
    \E i \in Reqs :
        /\ st[i].req.method = "POST"
        /\ st[i].pc = "Delegated"
        /\ st[i].nextCalls = 1

\* the WriteHeader operations made on the sink of request i
StatusWrites(i) ==
    SelectSeq(st[i].sinkOps, LAMBDA o : o.op = "WriteHeader")

\* C2: when GetObject reports NotModified the response is status 304 and no
\* body, the request ends in Responded and the next handler is not called
C2_NotModifiedResponds304 ==
    \A i \in Reqs :
        (Classed(i) /\ st[i].sto.err = AwsErr("NotModified")) =>
            /\ st[i].resp.status = 304
            /\ Len(StatusWrites(i)) = 1
            /\ st[i].resp.body = << >>
            /\ st[i].nextCalls = 0
            /\ st[i].pc \in {"Reconstruct", "Returned", "Responded"}
            /\ st[i].pc = "Returned" => st[i].err = NoErr
            /\ st[i].pc = "Responded" => st[i].result = NoErr

C2_Witness ==
    \E i \in Reqs :
        /\ st[i].sto.err = AwsErr("NotModified")
        /\ st[i].req.header["If-None-Match"] = "\"abc\""
        /\ st[i].pc = "Responded"
        /\ st[i].resp.status = 304

\* C3: writeResponseFromGetObject has run for a request only if the fetch
\* outcome of that request is Hit
C3_ReconstructorOnlyOnHit ==
    \A i \in Reqs : st[i].recon > 0 => st[i].outcome = "Hit"

\* C4: when the request is handed to the next handler nothing has been
\* written to the response: no status, no header, no body byte
C4_NothingWrittenOnDelegation ==
    \A i \in Reqs : st[i].pc = "Delegated" => Untouched(i)

\* C5: when GetObject reports NoSuchKey the request goes to the next handler
\* with no status and no header written
C5_MissDelegatesUnwritten ==
    \A i \in Reqs :
        (Classed(i) /\ st[i].sto.err = AwsErr("NoSuchKey")) =>
            /\ st[i].pc \in {"Returned", "Delegated"}
            /\ st[i].pc = "Returned" => st[i].err # NoErr
            /\ st[i].resp.status = 0
            /\ st[i].resp.header = st[i].req.respHeader
            /\ st[i].sinkOps = << >>

C5_Witness ==
    \E i \in Reqs :
        /\ st[i].sto.err = AwsErr("NoSuchKey")
        /\ st[i].pc = "Delegated"
        /\ st[i].nextCalls = 1

\* C6: a successful GetObject with content length zero is a Failure: the
\* reconstructor does not run, no 200 is written, the request is delegated
C6_EmptyObjectIsFailure ==
    \A i \in Reqs :
        (Classed(i) /\ st[i].sto.err = NoErr
                    /\ st[i].sto.obj.ContentLength = {0}) =>
            /\ st[i].outcome = "Failure"
            /\ st[i].recon = 0
            /\ st[i].resp.status # 200
            /\ st[i].pc \in {"Returned", "Delegated"}
            /\ st[i].pc = "Returned" => st[i].err # NoErr

C6_Witness ==
    \E i \in Reqs :
        /\ st[i].sto.err = NoErr
        /\ st[i].sto.obj.ContentLength = {0}
        /\ st[i].pc = "Delegated"

\* the bytes of the storage body of request i
StorageBody(i) ==
    IF st[i].sto.obj.Body = {} THEN << >> ELSE Body(i)

\* C7: after a Hit whose streaming succeeded the response body is the
\* storage body byte for byte, the request ends in Responded and the next
\* handler is not called
C7_HitStreamsBody ==
    \A i \in Reqs :
        (st[i].outcome = "Hit" /\ st[i].err = NoErr
            /\ st[i].pc \in {"Returned", "Responded", "Delegated"}) =>
            /\ st[i].resp.body = StorageBody(i)
            /\ st[i].pc # "Delegated"
            /\ st[i].nextCalls = 0

C7_Witness ==
    \E i \in Reqs :
        /\ st[i].outcome = "Hit"
        /\ st[i].pc = "Responded"
        /\ Len(st[i].resp.body) >= 2
        /\ st[i].resp.body = Body(i)

\* C8: a GET request that ends with anything but a successful Hit or
\* NotModified calls the next handler exactly once and returns what it
\* returned, never the storage or streaming error
C8_FailuresReturnNextResult ==
    \A i \in Reqs :
        /\ st[i].nextCalls <= 1
        /\ (st[i].req.method = "GET" /\ st[i].pc \in Terminal
               /\ st[i].outcome # "NotModified"
               /\ ~(st[i].outcome = "Hit" /\ st[i].err = NoErr)) =>
               /\ st[i].pc = "Delegated"
               /\ st[i].nextCalls = 1
               /\ st[i].result = st[i].nextResult
               /\ st[i].result \in NextResults
               /\ st[i].err # NoErr
               /\ st[i].result # st[i].err

C8_Witness ==
    \E i \in Reqs :
        /\ st[i].outcome = "Hit"
        /\ st[i].err.kind = "io"
        /\ st[i].pc = "Delegated"
        /\ st[i].result.kind = "next"

\* C9: a GET request that reaches a terminal state has computed exactly one
\* key and made exactly one GetObject call, and no request ever makes more
C9_OneKeyOneCall ==
    \A i \in Reqs :
        /\ st[i].nKeys <= 1
        /\ st[i].calls <= 1
        /\ (st[i].req.method = "GET" /\ st[i].pc \in Terminal) =>
               (st[i].nKeys = 1 /\ st[i].calls = 1)

C9_Witness ==
    \E i \in Reqs :
        /\ st[i].req.method = "GET"
        /\ st[i].pc = "Delegated"
        /\ st[i].sto.err = AwsErr("AccessDenied")
        /\ st[i].calls = 1

\* the root of request i after placeholder substitution
ResolvedRoot(i) == ReplaceAll(config.Root, st[i].req.rootVar)

EndsInSlash(p) == p # << >> /\ p[Len(p)] = "/"

\* C10 as stated: with no query, a path ending in "/" gives a key ending in
\* "/index.html", and any other path gets no default document
C10_DefaultDocument ==
    \A i \in Reqs :
        (st[i].nKeys = 1 /\ st[i].req.rawQuery = "") =>
            IF EndsInSlash(st[i].req.urlPath)
            THEN HasSuffix(st[i].key, <<"/">> \o defaultIndex)
            ELSE st[i].key = Join(<<ResolvedRoot(i), st[i].req.urlPath>>)

\* C10 amended: with no query, a path ending in "/" gives a key whose last
\* segment is index.html - the key ends in "/index.html" unless root and
\* path normalize to ".", where it is "index.html" - and any other path
\* gets the default document exactly when root and path normalize to "/"
C10_DefaultDocumentAmended ==
    \A i \in Reqs :
        (st[i].nKeys = 1 /\ st[i].req.rawQuery = "") =>
            LET joined == Join(<<ResolvedRoot(i), st[i].req.urlPath>>)
            IN  IF EndsInSlash(st[i].req.urlPath)
                THEN IF joined = <<".">>
                     THEN st[i].key = defaultIndex
                     ELSE HasSuffix(st[i].key, <<"/">> \o defaultIndex)
                ELSE IF joined = <<"/">>
                     THEN st[i].key = <<"/">> \o defaultIndex
                     ELSE st[i].key = joined

C10_Witness ==
    \E i \in Reqs :
        /\ st[i].pc = "KeyBuilt"
        /\ st[i].req.rawQuery = ""
        /\ ResolvedRoot(i) = <<"/", "s">>
        /\ st[i].req.urlPath = <<"/", "a", "/">>
        /\ st[i].key = <<"/", "s", "/", "a", "/">> \o defaultIndex
\* the segments of a path: the runs of characters between separators
RECURSIVE Segments(_, _)
Segments(p, cur) ==
    IF p = << >> THEN (IF cur = << >> THEN {} ELSE {cur})
    ELSE IF Head(p) = "/"
         THEN (IF cur = << >> THEN {} ELSE {cur}) \cup Segments(Tail(p), << >>)
         ELSE Segments(Tail(p), Append(cur, Head(p)))

\* C11: with a non-empty raw query the key has a segment that is the hex
\* SHA-1 of the raw query string, and two requests with the same root and
\* path have the same key exactly when their raw query strings are the same
C11_QueryHashSegment ==
    \A i \in Reqs :
        (st[i].nKeys = 1 /\ st[i].req.rawQuery # "") =>
            /\ Sha1Hex(st[i].req.rawQuery) \in Segments(st[i].key, << >>)
            /\ Len(Sha1Hex(st[i].req.rawQuery)) = 40
            /\ \A j \in Reqs :
                  (st[j].nKeys = 1 /\ st[j].req.rawQuery # ""
                     /\ ResolvedRoot(j) = ResolvedRoot(i)
                     /\ st[j].req.urlPath = st[i].req.urlPath) =>
                     (st[j].key = st[i].key
                        <=> st[j].req.rawQuery = st[i].req.rawQuery)

C11_Witness ==
    \E i, j \in Reqs :
        /\ st[i].nKeys = 1 /\ st[j].nKeys = 1
        /\ ResolvedRoot(i) = <<"/", "s">> /\ ResolvedRoot(j) = <<"/", "s">>
        /\ st[i].req.urlPath = <<"/", "a">> /\ st[j].req.urlPath = <<"/", "a">>
        /\ st[i].req.rawQuery = "a=1" /\ st[j].req.rawQuery = "a=%31"
        /\ st[i].key = <<"/", "s", "/", "a", "/">> \o Sha1Hex("a=1")
        /\ st[j].key # st[i].key

\* the segments of a path in order
RECURSIVE SegSeq(_, _)
SegSeq(p, cur) ==
    IF p = << >> THEN (IF cur = << >> THEN << >> ELSE <<cur>>)
    ELSE IF Head(p) = "/"
         THEN (IF cur = << >> THEN << >> ELSE <<cur>>) \o SegSeq(Tail(p), << >>)
         ELSE SegSeq(Tail(p), Append(cur, Head(p)))

\* C12 as stated: the key is the join, then the query hash joined under it,
\* then index.html if what results ends in "/"
C12_StatedOrder ==
    \A i \in Reqs :
        st[i].nKeys = 1 =>
            st[i].key = s3KeyOf_HashFirst(joinPath(ResolvedRoot(i),
                                                   st[i].req.urlPath),
                                          st[i].req.rawQuery)

\* C12 amended: the segments of the key are those of the normalized join of
\* root and path, then index.html if the path ends in "/" or the join is
\* "/", then the query hash if the query is not empty - the default
\* document comes before the hash
C12_IndexBeforeHash ==
    \A i \in Reqs :
        st[i].nKeys = 1 =>
            LET joined == Join(<<ResolvedRoot(i), st[i].req.urlPath>>)
                base   == IF joined = <<".">> THEN << >>
                          ELSE SegSeq(joined, << >>)
                index  == IF EndsInSlash(st[i].req.urlPath) \/ joined = <<"/">>
                          THEN <<defaultIndex>> ELSE << >>
                hash   == IF st[i].req.rawQuery # ""
                          THEN <<Sha1Hex(st[i].req.rawQuery)>> ELSE << >>
                segs   == base \o index \o hash
            IN  /\ (st[i].key[1] = "/") <=> (joined[1] = "/")
                /\ IF segs = << >>
                   THEN st[i].key = <<".">>
                   ELSE SegSeq(st[i].key, << >>) = segs

C12_Witness ==
    \E i \in Reqs :
        /\ st[i].pc = "KeyBuilt"
        /\ ResolvedRoot(i) = <<"/", "s">>
        /\ st[i].req.urlPath = <<"/", "a", "/">>
        /\ st[i].req.rawQuery = "a=1"
        /\ st[i].key = <<"/", "s", "/", "a", "/">> \o defaultIndex
                       \o <<"/">> \o Sha1Hex("a=1")

\* request i is a Hit whose headers writeResponseFromGetObject has copied
Reconstructed(i) == st[i].outcome = "Hit" /\ st[i].recon = 1

\* the header names writeResponseFromGetObject sets from fixed fields
FixedNames ==
    {Canonical(AllowList[n][1]) : n \in 1..Len(AllowList)}
    \cup {"Last-Modified", "X-Cache-S3"}

\* C13 as stated: on a Hit every entry of the user metadata is in the
\* response headers with its key and value
C13_AllMetadataCopied ==
    \A i \in Reqs :
        Reconstructed(i) =>
            \A k \in DOMAIN st[i].sto.obj.Metadata :
                /\ Canonical(k) \in DOMAIN st[i].resp.header
                /\ st[i].resp.header[Canonical(k)] = st[i].sto.obj.Metadata[k]

\* C13 amended: on a Hit an entry of the user metadata with a non-empty
\* value is in the response headers under the canonical form of its key,
\* unless that name is X-Cache-S3, or Content-Length with a body present,
\* or another entry has the same canonical name; an entry with an empty
\* value is not copied
C13_MetadataCopied ==
    \A i \in Reqs :
        Reconstructed(i) =>
            LET md      == st[i].sto.obj.Metadata
                hdr     == st[i].resp.header
                sole(k) == \A k2 \in DOMAIN md :
                               Canonical(k2) = Canonical(k) => k2 = k
            IN  \A k \in DOMAIN md :
                  /\ (md[k] # "" /\ sole(k)
                        /\ Canonical(k) # "X-Cache-S3"
                        /\ ~(Canonical(k) = "Content-Length"
                               /\ st[i].sto.obj.Body # {})) =>
                        /\ Canonical(k) \in DOMAIN hdr
                        /\ hdr[Canonical(k)] = md[k]
                  /\ (md[k] = "" /\ sole(k) /\ Canonical(k) \notin FixedNames) =>
                        (Canonical(k) \in DOMAIN hdr
                           <=> Canonical(k) \in DOMAIN st[i].req.respHeader)

C13_Witness ==
    \E i \in Reqs :
        /\ Reconstructed(i)
        /\ st[i].pc = "Responded"
        /\ st[i].sto.obj.ContentType = "text/html"
        /\ st[i].sto.obj.Metadata = ("Content-Type" :> "text/plain")
        /\ st[i].resp.status = 200
        /\ st[i].resp.wire["Content-Type"] = "text/plain"

\* C14 as stated: on a Hit a header of the fixed list is in the response
\* exactly when the field of the object is present and non-empty, and then
\* with the value of the field, whatever the user metadata holds
C14_FixedFieldsIff ==
    \A i \in Reqs :
        Reconstructed(i) =>
            \A n \in 1..Len(AllowList) :
                LET h == Canonical(AllowList[n][1])
                    f == st[i].sto.obj[AllowList[n][2]]
                IN  /\ h \in DOMAIN st[i].resp.header <=> (f # Nil /\ f # "")
                    /\ h \in DOMAIN st[i].resp.header =>
                          st[i].resp.header[h] = f

\* C14 amended: on a Hit a header of the fixed list has the value of a
\* non-empty user metadata entry of that name if there is one; otherwise
\* the value of the field of the object if that is present and non-empty;
\* otherwise it is as it was on the response before the handler ran
C14_FixedFields ==
    \A i \in Reqs :
        Reconstructed(i) =>
            \A n \in 1..Len(AllowList) :
                LET h   == Canonical(AllowList[n][1])
                    f   == st[i].sto.obj[AllowList[n][2]]
                    md  == st[i].sto.obj.Metadata
                    mdv == {md[k] : k \in {k2 \in DOMAIN md :
                                              Canonical(k2) = h /\ md[k2] # ""}}
                    hdr == st[i].resp.header
                    old == st[i].req.respHeader
                IN  IF mdv # {}
                    THEN h \in DOMAIN hdr /\ hdr[h] \in mdv
                    ELSE IF f # Nil /\ f # ""
                    THEN h \in DOMAIN hdr /\ hdr[h] = f
                    ELSE /\ h \in DOMAIN hdr <=> h \in DOMAIN old
                         /\ h \in DOMAIN hdr => hdr[h] = old[h]

C14_Witness ==
    \E i \in Reqs :
        /\ Reconstructed(i)
        /\ st[i].pc = "Responded"
        /\ st[i].req.respHeader = EmptyHeader
        /\ st[i].sto.obj.ContentType = "text/html"
        /\ st[i].sto.obj.ContentEncoding = ""
        /\ st[i].sto.obj.ETag = Nil
        /\ st[i].sto.obj.Metadata = ("x-foo" :> "bar")
        /\ st[i].resp.header =
              ("Content-Type" :> "text/html") @@ ("X-Foo" :> "bar")
              @@ ("X-Cache-S3" :> "hit")

\* the moment io.Copy is entered: reconstruction done, nothing read yet
StreamingStarts(i) ==
    /\ st[i].pc = "Streaming"
    /\ st[i].outcome = "Hit"
    /\ st[i].pos = 0

\* C15: on a Hit with a body, when streaming starts the header map holds no
\* Content-Length, whatever set one earlier, and X-Cache-S3 is "hit"
C15_NoContentLengthAtStreamStart ==
    \A i \in Reqs :
        StreamingStarts(i) =>
            /\ "Content-Length" \notin DOMAIN st[i].resp.header
            /\ "X-Cache-S3" \in DOMAIN st[i].resp.header
            /\ st[i].resp.header["X-Cache-S3"] = "hit"

C15_Witness ==
    \E i \in Reqs :
        /\ StreamingStarts(i)
        /\ st[i].sto.obj.Body # {}
        /\ "Content-Length" \in DOMAIN st[i].req.respHeader
        /\ st[i].sto.obj.Metadata = ("content-length" :> "5")
        /\ st[i].resp.status = 0
        /\ "Content-Length" \notin DOMAIN st[i].resp.header
        /\ st[i].resp.header["X-Cache-S3"] = "hit"

\* the header is present, non-empty and, for a date, an HTTP date
Usable(name, v) ==
    /\ v # Nil
    /\ v # ""
    /\ name \in {"If-Modified-Since", "If-Unmodified-Since"} =>
          v = SomeTimeHTTP

\* the GetObjectInput field of each validator header
FieldOf ==
    [n \in ValidatorNames |->
        CASE n = "Range"               -> "Range"
          [] n = "If-Match"            -> "IfMatch"
          [] n = "If-None-Match"       -> "IfNoneMatch"
          [] n = "If-Modified-Since"   -> "IfModifiedSince"
          [] n = "If-Unmodified-Since" -> "IfUnmodifiedSince"]

\* C16: whatever the five validator headers are, each field of the
\* GetObject input is set exactly when its own header is present,
\* non-empty and (for the dates) an HTTP date, and then to the header's
\* value; a GET request is never finished without the GetObject call
C16_ValidatorsTranslated ==
    \A i \in Reqs :
        /\ st[i].calls > 0 =>
              \A n \in ValidatorNames :
                  LET v == st[i].req.header[n]
                      f == st[i].oi[FieldOf[n]]
                  IN  /\ f # Nil <=> Usable(n, v)
                      /\ f # Nil =>
                            f = IF n \in {"If-Modified-Since",
                                          "If-Unmodified-Since"}
                                THEN SomeTime ELSE v
        /\ (st[i].pc \in Terminal /\ st[i].req.method = "GET") =>
              st[i].calls = 1

C16_Witness ==
    \E i \in Reqs :
        /\ st[i].pc = "Delegated"
        /\ st[i].calls = 1
        /\ st[i].req.header["If-Modified-Since"] = "yesterday"
        /\ st[i].req.header["If-Unmodified-Since"] = SomeTimeHTTP
        /\ st[i].req.header["If-None-Match"] = "yesterday"
        /\ st[i].req.header["If-Match"] = ""
        /\ st[i].req.header["Range"] = Nil
        /\ st[i].oi.IfModifiedSince = Nil
        /\ st[i].oi.IfUnmodifiedSince = SomeTime
        /\ st[i].oi.IfNoneMatch = "yesterday"
        /\ st[i].oi.IfMatch = Nil
        /\ st[i].oi.Range = Nil

\* the outcome getS3Object and GetHandler give one storage response
OutcomeOf(sto) ==
    IF sto.err.kind = "aws" /\ sto.err.code = "NotModified" THEN "NotModified"
    ELSE IF sto.err.kind = "aws" /\ sto.err.code = "NoSuchKey" THEN "Miss"
    ELSE IF sto.err.kind # "nil" THEN "Failure"
    ELSE IF sto.obj.ContentLength = {0} THEN "Failure"
    ELSE "Hit"

\* key, GetObject input, outcome and terminal state of request i are what
\* its own request and its own storage response give
OwnInputsOnly(i) ==
    /\ st[i].nKeys > 0 =>
          st[i].key = s3KeyOf(joinPath(ReplaceAll(config.Root,
                                                  st[i].req.rootVar),
                                       st[i].req.urlPath),
                              st[i].req.rawQuery)
    /\ st[i].calls > 0 =>
          st[i].oi = GetObjectInput(config.Bucket, st[i].key, st[i].req.header)
    /\ Classed(i) => st[i].outcome = OutcomeOf(st[i].sto)
    /\ (Classed(i) /\ st[i].pc = "Responded") =>
          OutcomeOf(st[i].sto) \in {"Hit", "NotModified"}
    /\ (Classed(i) /\ st[i].pc = "Delegated") =>
          OutcomeOf(st[i].sto) \in {"Miss", "Failure"}

\* C17: with requests interleaved, no step changes the configuration, no
\* step changes more than one request, and every request's key, GetObject
\* input and outcome follow from its own request and storage response
C17_RequestsIndependent ==
    /\ [][ /\ config' = config
            /\ \A i, j \in Reqs :
                  (i # j /\ st'[i] # st[i]) => st'[j] = st[j] ]_vars
    /\ [](\A i \in Reqs : OwnInputsOnly(i))

C17_Witness ==
    \E i, j \in Reqs :
        /\ i # j
        /\ st[i].pc = "Streaming"
        /\ st[i].pos = 1
        /\ st[i].req.rawQuery = ""
        /\ st[j].pc = "Fetched"
        /\ st[j].req.rawQuery = "a=1"
        /\ st[j].key # st[i].key
        /\ st[j].sto.err = AwsErr("NoSuchKey")

\* C18: no request stops or aborts short of Responded or Delegated: the
\* handler never panics, whatever the method, the url path (the empty one
\* included) and the storage result
C18_NoRequestAborts ==
    \A i \in Reqs : st[i].pc # "Panicked"

\* the operations on the response sink that put something on the wire
WireOps == {"WriteHeader", "Write"}

\* C19: within a request every Set or Del on the header map comes before
\* the first status or body write
C19_HeadersBeforeWrites ==
    \A i \in Reqs :
        \A m, n \in DOMAIN st[i].sinkOps :
            (m < n /\ st[i].sinkOps[m].op \in WireOps) =>
                st[i].sinkOps[n].op \notin {"Set", "Del"}

IsPrefix(a, b) == Len(a) <= Len(b) /\ SubSeq(b, 1, Len(a)) = a

\* the segments of the normalized root; "." is the empty path
RootSegments(i) ==
    IF Clean(ResolvedRoot(i)) = <<".">>
    THEN << >>
    ELSE SegSeq(Clean(ResolvedRoot(i)), << >>)

\* C20: the key given to GetObject lies under the resolved root: the
\* segments of the normalized root are a prefix of the segments of the key
C20_KeyUnderRoot ==
    \A i \in Reqs :
        st[i].nKeys > 0 => IsPrefix(RootSegments(i), SegSeq(st[i].key, << >>))
====
